---- MODULE Spec2Model ----
(***************************************************************************)
(* A model of the Instra analytics application (Xyrax/analytics):          *)
(* engine.py (impression prediction, viral score, averages, posting-time   *)
(* selection, forecast report, rule-based strategy) and views.py (the      *)
(* analyze / clear / agent request handlers over the Post store).          *)
(*                                                                         *)
(* A Python float is modelled as [n, d, x]: the exact rational n/d (d > 0, *)
(* lowest terms) the computation stands for, and a flag x saying that the  *)
(* IEEE double in the program may differ from n/d by a rounding error (a   *)
(* literal such as 1.08 or a quotient such as 1/3 has no exact double).    *)
(* The flag decides int() and round() where the rounding error can: int()  *)
(* of an inexact float whose exact value is the integer k > 0 returns k or *)
(* k - 1, round() of an inexact float at an exact tie returns either       *)
(* neighbour; such calls are set-valued below.  Comparisons are taken on   *)
(* the exact values.  Python dicts are functions over a set of string      *)
(* keys, and dict.get is Get.                                              *)
(***************************************************************************)
EXTENDS Integers, Sequences, FiniteSets, TLC

VARIABLES
    posts,          \* the Post table (models.py), in created_at order
    POSTING_TIMES,  \* engine.py's module-level slot catalog (a mutable list)
    inputs,         \* the metrics mapping of the call / request in progress
    history,        \* the history list handed to the engine function
    arg_impressions, \* the impressions argument (analyze's local impressions)
    arg_viral_score, \* the viral_score argument (analyze's local viral_score)
    result,         \* what the last call returned / the last HTTP response
    observed        \* log of the get_best_times calls made so far: [args, value]

vars == <<posts, POSTING_TIMES, inputs, history, arg_impressions, arg_viral_score, result, observed>>

\* ------------------------------------------------------------------------
\* Bounds of the model
\* ------------------------------------------------------------------------

\* Longest history list handed to an engine function in the pure-function
\* specifications.
MaxHist == 3

\* Most get_best_times calls logged in one behaviour of SpecBestTimes.
MaxCalls == 3

\* ------------------------------------------------------------------------
\* Arithmetic: exact rationals standing for Python floats
\* ------------------------------------------------------------------------

Abs(x) == IF x < 0 THEN -x ELSE x

Max(a, b) == IF a >= b THEN a ELSE b

Min(a, b) == IF a <= b THEN a ELSE b

RECURSIVE GCD(_, _)
GCD(a, b) == IF b = 0 THEN a ELSE GCD(b, a % b)

\* The rational n/d in lowest terms with a positive denominator.
R(n, d) ==
    LET s == IF d < 0 THEN -1 ELSE 1
        g == GCD(Abs(n), Abs(d))
    IN  [n |-> (s * n) \div g, d |-> (s * d) \div g]

RInt(i) == [n |-> i, d |-> 1]

RAdd(x, y) == R(x.n * y.d + y.n * x.d, x.d * y.d)

RSub(x, y) == R(x.n * y.d - y.n * x.d, x.d * y.d)

RMul(x, y) ==
    LET a == R(x.n, y.d)
        b == R(y.n, x.d)
    IN  [n |-> a.n * b.n, d |-> a.d * b.d]

RDiv(x, y) == RMul(x, R(y.d, y.n))

\* x < y, by the integer parts and then the fractional parts (denominators
\* are positive).
RLt(x, y) ==
    LET qx == x.n \div x.d
        qy == y.n \div y.d
    IN  \/ qx < qy
        \/ qx = qy /\ (x.n - qx * x.d) * y.d < (y.n - qy * y.d) * x.d

RLe(x, y) == ~RLt(y, x)

RMax(x, y) == IF RLe(y, x) THEN x ELSE y

\* Python round(x) of an exact value: the nearest integer, ties to even.
RoundHalfEven(x) ==
    LET q == x.n \div x.d
        r == x.n - q * x.d
    IN  IF 2 * r < x.d THEN q
        ELSE IF 2 * r > x.d THEN q + 1
        ELSE IF q % 2 = 0 THEN q ELSE q + 1

\* ------------------------------------------------------------------------
\* Arithmetic: Python floats
\* ------------------------------------------------------------------------

RECURSIVE IsPow2(_)
IsPow2(d) == d = 1 \/ (d % 2 = 0 /\ IsPow2(d \div 2))

\* The float for the rational r computed from operands whose inexactness is
\* x: inexact as well when r has no finite binary expansion.
Mk(r, x) == [x |-> x \/ ~IsPow2(r.d), n |-> r.n, d |-> r.d]

\* A float literal n/d, e.g. Lit(108, 100) for 1.08; float(i) of an int.
Lit(n, d) == Mk(R(n, d), FALSE)

FInt(i) == [x |-> FALSE, n |-> i, d |-> 1]

IsZero(a) == a.n = 0 /\ ~a.x

FNeg(a) == [x |-> a.x, n |-> -a.n, d |-> a.d]

FAdd(a, b) == Mk(RAdd(a, b), a.x \/ b.x)

FSub(a, b) == Mk(RSub(a, b), a.x \/ b.x)

FMul(a, b) == IF IsZero(a) \/ IsZero(b) THEN FInt(0) ELSE Mk(RMul(a, b), a.x \/ b.x)

FDiv(a, b) == IF IsZero(a) THEN FInt(0) ELSE Mk(RDiv(a, b), a.x \/ b.x)

\* a / b for two Python ints: one correctly rounded division.
IntDiv(a, b) == Mk(R(a, b), FALSE)

\* min(a, b), max(a, b) on floats.
FMin(a, b) ==
    IF RLt(a, b) THEN a ELSE IF RLt(b, a) THEN b ELSE Mk(a, a.x \/ b.x)

FMax(a, b) ==
    IF RLt(b, a) THEN a ELSE IF RLt(a, b) THEN b ELSE Mk(a, a.x \/ b.x)

\* Python int(x): truncation toward zero; the values it can return.
IntOf(a) ==
    IF a.x /\ a.d = 1 /\ a.n > 0 THEN {a.n - 1, a.n}
    ELSE IF a.x /\ a.d = 1 /\ a.n < 0 THEN {a.n, a.n + 1}
    ELSE IF a.n >= 0 THEN {a.n \div a.d}
    ELSE {-((-a.n) \div a.d)}

\* Python round(x): nearest integer, ties to even; the values it can return.
RoundOf(a) ==
    LET q == a.n \div a.d
        r == a.n - q * a.d
    IN  IF a.x /\ 2 * r = a.d THEN {q, q + 1} ELSE {RoundHalfEven(a)}

\* Python round(x, k) for scale = 10^k: the floats it can return.
RoundTo(a, scale) ==
    {Lit(k, scale) : k \in RoundOf(Mk(RMul(a, RInt(scale)), a.x))}

\* ------------------------------------------------------------------------
\* Sequences and dicts
\* ------------------------------------------------------------------------

\* dict.get(key, default)
Get(p, key, default) == IF key \in DOMAIN p THEN p[key] ELSE default

Range(s) == {s[i] : i \in DOMAIN s}

RECURSIVE SumSeq(_)
SumSeq(s) == IF s = <<>> THEN 0 ELSE s[1] + SumSeq(Tail(s))

RECURSIVE RSumSeq(_)
RSumSeq(s) == IF s = <<>> THEN RInt(0) ELSE RAdd(s[1], RSumSeq(Tail(s)))

\* [f(p) for p in s]
MapSeq(s, F(_)) == [i \in 1..Len(s) |-> F(s[i])]

\* All sequences over S of length at most n.
SeqsUpTo(S, n) == UNION {[1..k -> S] : k \in 0..n}

\* ------------------------------------------------------------------------
\* engine.py: metric calculators
\* ------------------------------------------------------------------------

\* The exact value of a float, without its flag.
Val(a) == [n |-> a.n, d |-> a.d]

\* Lines 27-36: the weighted base score.
FormulaBase(inp) ==
    FAdd(FAdd(FAdd(FAdd(FAdd(FAdd(
        FMul(FInt(Get(inp, "likes", 0)), Lit(10, 10)),
        FMul(FInt(Get(inp, "saves", 0)), Lit(45, 10))),
        FMul(FInt(Get(inp, "comments", 0)), Lit(30, 10))),
        FMul(FInt(Get(inp, "shares", 0)), Lit(60, 10))),
        FMul(FInt(Get(inp, "follows", 0)), Lit(50, 10))),
        FMul(FInt(Get(inp, "profile_visits", 0)), Lit(8, 10))),
        FMul(FInt(Get(inp, "reposts", 0)), Lit(55, 10)))

\* A faulty variant of lines 38-42: the bonus and the penalty are swapped.
CaptionMultiplier_swapped(inp) ==
    LET caption_length == Get(inp, "caption_length", 0)
    IN  IF 100 <= caption_length /\ caption_length <= 220 THEN Lit(96, 100)
        ELSE IF caption_length > 400 THEN Lit(108, 100)
        ELSE FInt(1)

\* Lines 38-42.
CaptionMultiplier(inp) ==
    LET caption_length == Get(inp, "caption_length", 0)
    IN  IF 100 <= caption_length /\ caption_length <= 220 THEN Lit(108, 100)
        ELSE IF caption_length > 400 THEN Lit(96, 100)
        ELSE FInt(1)

\* Lines 44-48.
HashtagMultiplier(inp) ==
    LET hashtags == Get(inp, "hashtags", 0)
    IN  IF 5 <= hashtags /\ hashtags <= 25 THEN Lit(105, 100)
        ELSE IF hashtags > 30 THEN Lit(97, 100)
        ELSE FInt(1)

\* Lines 27-51: int(base * 12.5 + 400); the values it can take.
FormulaImpressions(inp) ==
    LET base == FMul(FMul(FormulaBase(inp), CaptionMultiplier(inp)),
                     HashtagMultiplier(inp))
    IN  IntOf(FAdd(FMul(base, Lit(125, 10)), FInt(400)))

\* Line 55: the positive predicted_impressions of a history.
PositiveImps(hist) ==
    SelectSeq(MapSeq(hist, LAMBDA p : Get(p, "predicted_impressions", 0)),
              LAMBDA v : v > 0)

\* Lines 54-62: blend 60% formula with 40% of the scaled historical mean;
\* the values the blend can take.
Calibrate(impressions, inp, hist) ==
    LET hist_imps == PositiveImps(hist)
    IN  IF hist /= <<>> /\ hist_imps /= <<>>
        THEN LET hist_avg    == IntDiv(SumSeq(hist_imps), Len(hist_imps))
                 saves_ratio == IntDiv(Get(inp, "saves", 0),
                                       Max(Get(inp, "likes", 0), 1))
                 scale       == FAdd(FInt(1),
                                     FMul(FSub(saves_ratio, Lit(5, 10)), Lit(4, 10)))
                 calibrated  == FMul(hist_avg, scale)
             IN  IntOf(FAdd(FMul(Lit(6, 10), FInt(impressions)),
                            FMul(Lit(4, 10), calibrated)))
        ELSE {impressions}

\* A faulty variant: the +400 intercept is applied as -400 and the final
\* max(..., 100) clamp is missing.
predict_impressions_nofloor(inp, hist) ==
    UNION {Calibrate(i - 800, inp, hist) : i \in FormulaImpressions(inp)}

\* Lines 12-64: the values predict_impressions(inputs, history) can return
\* (one value, or two where a float rounding error decides an int()).
predict_impressions(inp, hist) ==
    {Max(v, 100) :
        v \in UNION {Calibrate(i, inp, hist) : i \in FormulaImpressions(inp)}}

\* A faulty variant of lines 94-100: the else branch scores 0 instead of 3.
hashtag_score_flat(hashtags) ==
    IF 10 <= hashtags /\ hashtags <= 25 THEN 10
    ELSE IF 5 <= hashtags /\ hashtags <= 30 THEN 7
    ELSE 0

\* Lines 94-100.
hashtag_score(hashtags) ==
    IF 10 <= hashtags /\ hashtags <= 25 THEN 10
    ELSE IF 5 <= hashtags /\ hashtags <= 30 THEN 7
    ELSE 3

\* Lines 67-103: the 0-100 composite score, rounded to one decimal; the
\* floats compute_viral_score(inputs) can return.
compute_viral_score(inp) ==
    LET likes          == Get(inp, "likes", 0)
        saves          == Get(inp, "saves", 0)
        comments       == Get(inp, "comments", 0)
        shares         == Get(inp, "shares", 0)
        follows        == Get(inp, "follows", 0)
        profile_visits == Get(inp, "profile_visits", 0)
        hashtags       == Get(inp, "hashtags", 0)
        total_eng      == likes + saves + comments + shares + follows
        saves_ratio    == IntDiv(saves, Max(likes, 1))
        saves_score    == FMin(FMul(saves_ratio, FInt(40)), FInt(35))
        comments_score == FMin(FMul(FMul(IntDiv(comments, Max(total_eng, 1)),
                                         FInt(100)), Lit(15, 10)), FInt(20))
        shares_score   == FMin(FMul(FMul(IntDiv(shares, Max(total_eng, 1)),
                                         FInt(100)), FInt(2)), FInt(20))
        follow_score   == IF profile_visits > 0
                          THEN FMin(FMul(FMul(IntDiv(follows, Max(profile_visits, 1)),
                                              FInt(100)), Lit(3, 10)), FInt(15))
                          ELSE FInt(0)
        raw            == FAdd(FAdd(FAdd(FAdd(saves_score, comments_score),
                                         shares_score), follow_score),
                               FInt(hashtag_score(hashtags)))
    IN  IF total_eng = 0 THEN {FInt(0)}
        ELSE RoundTo(FMin(raw, FInt(100)), 10)

\* Lines 106-115: the floats compute_engagement_rate can return.
compute_engagement_rate(inp, impressions) ==
    LET total == Get(inp, "likes", 0) + Get(inp, "saves", 0)
                 + Get(inp, "comments", 0) + Get(inp, "shares", 0)
    IN  IF impressions = 0 THEN {FInt(0)}
        ELSE RoundTo(FMul(IntDiv(total, impressions), FInt(100)), 100)

\* Lines 118-123: the floats compute_follow_rate can return.
compute_follow_rate(inp) ==
    LET follows        == Get(inp, "follows", 0)
        profile_visits == Get(inp, "profile_visits", 0)
    IN  IF profile_visits = 0 THEN {FInt(0)}
        ELSE RoundTo(FMul(IntDiv(follows, profile_visits), FInt(100)), 10)

\* ------------------------------------------------------------------------
\* engine.py: historical averages
\* ------------------------------------------------------------------------

\* Line 132: round(sum(p.get(k, 0) for p in history) / len(history)).  A
\* quotient of two ints at an exact tie (k + 1/2) is an exact double, so
\* round() of it is decided by the exact value.
MeanOfKey(hist, k) ==
    RoundHalfEven(R(SumSeq(MapSeq(hist, LAMBDA p : Get(p, k, 0))), Len(hist)))

\* A faulty variant of line 133: the "> 0" filter is missing.
ImpVals_unfiltered(hist) ==
    MapSeq(hist, LAMBDA p : Get(p, "predicted_impressions", 0))

\* Line 133: the positive predicted_impressions values.
ImpVals(hist) == PositiveImps(hist)

\* Lines 128-135.
compute_averages(hist) ==
    IF hist = <<>>
    THEN [impressions |-> 0, likes |-> 0, saves |-> 0, comments |-> 0, shares |-> 0]
    ELSE LET imp_vals == ImpVals(hist)
         IN  [impressions |-> IF imp_vals /= <<>>
                              THEN RoundHalfEven(R(SumSeq(imp_vals), Len(imp_vals)))
                              ELSE 0,
              likes       |-> MeanOfKey(hist, "likes"),
              saves       |-> MeanOfKey(hist, "saves"),
              comments    |-> MeanOfKey(hist, "comments"),
              shares      |-> MeanOfKey(hist, "shares")]

\* ------------------------------------------------------------------------
\* engine.py: best posting times
\* ------------------------------------------------------------------------

\* engine.py lines 140-151: POSTING_TIMES as the module is loaded.
Catalog ==
    << "Tuesday 7-9 PM", "Thursday 6-8 PM", "Wednesday 12-2 PM", "Sunday 8-10 PM",
       "Monday 8-10 AM", "Friday 9-11 AM", "Wednesday 7-9 AM", "Saturday 10-12 PM",
       "Thursday 12-2 PM", "Tuesday 6-8 PM" >>

\* Line 161.
Seed(inp) ==
    Get(inp, "saves", 0) * 7 + Get(inp, "comments", 0) * 13
        + Get(inp, "hashtags", 0) * 3

\* Line 162, rng = random.Random(seed): the nine numbers randbelow(10),
\* randbelow(9), ..., randbelow(2) that CPython's Mersenne Twister seeded
\* with seed hands to shuffle, tabulated for the seeds of the model's inputs.
MTDraws(seed) ==
    CASE seed = 0 -> <<6, 6, 0, 2, 4, 3, 3, 1, 1>>
      [] seed = 13 -> <<4, 4, 2, 5, 1, 1, 1, 2, 0>>
      [] seed = 21 -> <<2, 6, 6, 5, 2, 3, 1, 1, 0>>
      [] seed = 34 -> <<8, 5, 0, 6, 1, 0, 3, 1, 0>>
      [] seed = 42 -> <<1, 0, 4, 1, 1, 1, 0, 2, 0>>
      [] seed = 55 -> <<1, 3, 2, 5, 2, 0, 1, 1, 0>>
      [] seed = 134 -> <<7, 8, 3, 5, 4, 1, 0, 2, 1>>
      [] seed = 141 -> <<8, 0, 7, 1, 4, 3, 0, 1, 0>>
      [] seed = 150 -> <<5, 6, 3, 1, 2, 3, 1, 0, 1>>
      [] seed = 180 -> <<2, 1, 0, 4, 2, 0, 3, 0, 0>>
      [] seed = 255 -> <<0, 5, 0, 2, 4, 1, 2, 1, 1>>

Swap(x, a, b) == [x EXCEPT ![a] = x[b], ![b] = x[a]]

\* Line 164, random.shuffle(x): for i in reversed(range(1, len(x))), swap
\* x[i] with x[randbelow(i + 1)] (positions are 1-based here).
RECURSIVE ShuffleStep(_, _, _)
ShuffleStep(x, i, draws) ==
    IF i < 2 THEN x
    ELSE ShuffleStep(Swap(x, i, draws[Len(x) - i + 1] + 1), i - 1, draws)

Shuffle(x, seed) == ShuffleStep(x, Len(x), MTDraws(seed))

\* A faulty variant of line 163: shuffled = POSTING_TIMES without the copy,
\* so the shuffle reorders the module-level catalog itself.
CatalogAfterShuffle_inplace(catalog, shuffled) == shuffled

\* Line 163, shuffled = POSTING_TIMES[:]: the shuffle works on a copy, and
\* the module-level catalog is what it was.
CatalogAfterShuffle(catalog, shuffled) == catalog

\* Lines 154-170.
get_best_times(inp, catalog) ==
    LET shuffled == Shuffle(catalog, Seed(inp))
        top3     == SubSeq(shuffled, 1, Min(3, Len(shuffled)))
    IN  [i \in 1..Len(top3) |->
            [slot |-> top3[i], label |-> IF i = 1 THEN "BEST" ELSE "GOOD"]]

\* ------------------------------------------------------------------------
\* engine.py: forecast report
\* ------------------------------------------------------------------------

\* sum(values) over floats.
RECURSIVE FSumSeq(_)
FSumSeq(s) == IF s = <<>> THEN FInt(0) ELSE FAdd(s[1], FSumSeq(Tail(s)))

\* The sequences whose i-th element is drawn from the set C[i].
SeqChoices(C) ==
    {s \in [DOMAIN C -> UNION Range(C)] : \A i \in DOMAIN C : s[i] \in C[i]}

\* Lines 175-181: the trailing-window moving average, one decimal, of a
\* list of ints; the lists it can return.
smooth(values, window) ==
    SeqChoices([i \in 1..Len(values) |->
        LET start == Max(1, i - window + 1)
            chunk == SubSeq(values, start, i)
        IN  RoundTo(IntDiv(SumSeq(chunk), Len(chunk)), 10)])

\* A faulty variant: the extra element of an odd-length list goes to the first half.
trend_direction_ceil(values) ==
    IF Len(values) < 2 THEN "stable"
    ELSE LET half        == (Len(values) + 1) \div 2
             first_half  == SubSeq(values, 1, half)
             second_half == SubSeq(values, half + 1, Len(values))
             avg_first   == FDiv(FSumSeq(first_half), FInt(Len(first_half)))
             avg_second  == FDiv(FSumSeq(second_half), FInt(Len(second_half)))
             diff        == FSub(avg_second, avg_first)
         IN  IF RLt(FMul(avg_first, Lit(5, 100)), diff) THEN "improving"
             ELSE IF RLt(diff, FMul(FNeg(avg_first), Lit(5, 100))) THEN "declining"
             ELSE "stable"

\* Lines 184-196, on a list of floats.
trend_direction(values) ==
    IF Len(values) < 2 THEN "stable"
    ELSE LET half        == Len(values) \div 2
             first_half  == SubSeq(values, 1, half)
             second_half == SubSeq(values, half + 1, Len(values))
             avg_first   == FDiv(FSumSeq(first_half), FInt(Len(first_half)))
             avg_second  == FDiv(FSumSeq(second_half), FInt(Len(second_half)))
             diff        == FSub(avg_second, avg_first)
         IN  IF RLt(FMul(avg_first, Lit(5, 100)), diff) THEN "improving"
             ELSE IF RLt(diff, FMul(FNeg(avg_first), Lit(5, 100))) THEN "declining"
             ELSE "stable"

\* The same on a list of ints.
trend_direction_int(values) == trend_direction(MapSeq(values, FInt))

\* Line 201: history plus the synthetic record of the current post.
AllPosts(hist, current_inputs, current_imp) ==
    Append(hist, ("predicted_impressions" :> current_imp) @@ current_inputs)

\* A faulty variant of line 201 that appends the synthetic record to the
\* caller's list (history.append(...)) instead of building a new list.
HistoryAfterForecast_appended(hist, all_posts) == all_posts

\* Line 201, list(history) + [...]: the caller's history list after the
\* call is the list it passed.
HistoryAfterForecast(hist, all_posts) == hist

\* Line 201, {**current_inputs, 'predicted_impressions': current_imp}: a new
\* dict, so the caller's metrics mapping after the call is the one it
\* passed.
InputsAfterForecast(current_inputs, record) == current_inputs

\* A faulty variant of line 202 that follows the docstring ("requires at
\* least 2 historical posts").
TooFew_docstring(all_posts) == Len(all_posts) < 3

\* Line 202.
TooFew(all_posts) == Len(all_posts) < 2

\* Lines 216-220: the values next_imp can take.
NextImpForecast(imps) ==
    IF Len(imps) >= 2
    THEN LET slope == IntDiv(imps[Len(imps)] - imps[1], Max(Len(imps) - 1, 1))
         IN  {Max(v, 100) :
                 v \in IntOf(FAdd(FInt(imps[Len(imps)]), FMul(slope, Lit(5, 10))))}
    ELSE {imps[Len(imps)]}

\* Lines 222-226: the values next_viral can take.
NextViralForecast(viral_scores) ==
    IF Len(viral_scores) >= 2
    THEN LET last    == viral_scores[Len(viral_scores)]
             v_slope == FDiv(FSub(last, viral_scores[1]),
                             FInt(Max(Len(viral_scores) - 1, 1)))
         IN  RoundTo(FMin(FAdd(last, FMul(v_slope, Lit(5, 10))), FInt(100)), 10)
    ELSE IF viral_scores /= <<>> THEN {viral_scores[Len(viral_scores)]}
    ELSE {FInt(0)}

\* Lines 229-230.
OptHashtags(all_posts) ==
    LET hashtag_vals == SelectSeq(MapSeq(all_posts, LAMBDA p : Get(p, "hashtags", 0)),
                                  LAMBDA v : v > 0)
    IN  IF hashtag_vals /= <<>>
        THEN RoundHalfEven(R(SumSeq(hashtag_vals), Len(hashtag_vals)))
        ELSE 20

\* Line 235: sum((x - avg_imp) ** 2 for x in imps) / len(imps).
Variance(imps) ==
    LET avg_imp == R(SumSeq(imps), Len(imps))
        sq(x)   == RMul(RSub(RInt(x), avg_imp), RSub(RInt(x), avg_imp))
    IN  RDiv(RSumSeq(MapSeq(imps, sq)), RInt(Len(imps)))

\* Lines 236-237, cv < t for cv = math.sqrt(variance) / denom with
\* denom > 0 and t > 0: the comparison of the squares.
CvBelow(variance, denom, t) == RLt(RDiv(variance, RMul(denom, denom)), RMul(t, t))

\* A faulty variant of lines 233-239 whose "Medium" band includes cv = 0.5
\* (cv <= 0.5 instead of cv < 0.5).
Consistency_inclusive(imps) ==
    IF Len(imps) >= 3
    THEN LET variance == Variance(imps)
             denom    == RMax(R(SumSeq(imps), Len(imps)), RInt(1))
         IN  IF CvBelow(variance, denom, R(25, 100)) THEN "High"
             ELSE IF RLe(variance, RMul(R(25, 100), RMul(denom, denom)))
                  THEN "Medium"
             ELSE "Low"
    ELSE "Building"

\* Lines 232-239.
Consistency(imps) ==
    IF Len(imps) >= 3
    THEN LET avg_imp  == R(SumSeq(imps), Len(imps))
             variance == Variance(imps)
             denom    == RMax(avg_imp, RInt(1))
         IN  IF CvBelow(variance, denom, R(25, 100)) THEN "High"
             ELSE IF CvBelow(variance, denom, R(5, 10)) THEN "Medium"
             ELSE "Low"
    ELSE "Building"

None == [none |-> TRUE]

\* Lines 199-256: the reports build_forecast_report can return.
build_forecast_report(hist, current_inputs, current_imp) ==
    LET all_posts    == AllPosts(hist, current_inputs, current_imp)
        imps         == MapSeq(all_posts, LAMBDA p : Get(p, "predicted_impressions", 0))
        saves_ratios == MapSeq(all_posts,
                               LAMBDA p : IntDiv(Get(p, "saves", 0),
                                                 Max(Get(p, "likes", 1), 1)))
        viral_scores == MapSeq(all_posts, LAMBDA p : Get(p, "viral_score", FInt(0)))
        engagement   == MapSeq(all_posts,
                               LAMBDA p : Get(p, "likes", 0) + Get(p, "comments", 0))
    IN  IF TooFew(all_posts) THEN {None}
        ELSE { [saves_ratio         |-> [values    |-> sv,
                                         direction |-> trend_direction(saves_ratios)],
                post_count          |-> Len(all_posts),
                impression_trend    |-> trend_direction_int(imps),
                imp_smoothed        |-> sm,
                next_imp_forecast   |-> ni,
                next_viral_forecast |-> nv,
                opt_hashtags        |-> OptHashtags(all_posts),
                engagement_velocity |-> [direction   |-> trend_direction_int(engagement),
                                         consistency |-> Consistency(imps)]] :
                 sm \in smooth(imps, 3),
                 ni \in NextImpForecast(imps),
                 nv \in NextViralForecast(viral_scores),
                 sv \in SeqChoices(MapSeq(saves_ratios, LAMBDA r : RoundTo(r, 1000))) }

\* ------------------------------------------------------------------------
\* engine.py lines 261-368: generate_ai_strategy
\* The lever and diagnosis texts are the source's texts up to their first
\* clause, written in ASCII.
\* ------------------------------------------------------------------------

\* Lines 272-274.
SavesRatio(inp) == IntDiv(Get(inp, "saves", 0), Max(Get(inp, "likes", 0), 1))

CommentRatio(inp) == IntDiv(Get(inp, "comments", 0), Max(Get(inp, "likes", 0), 1))

FollowConv(inp) ==
    IF Get(inp, "profile_visits", 0) > 0
    THEN IntDiv(Get(inp, "follows", 0), Max(Get(inp, "profile_visits", 0), 1))
    ELSE FInt(0)

\* A faulty variant of lines 277-282: "Moderate Potential" starts at 50.
ViralLabel_shifted(viral_score) ==
    IF RLe(FInt(65), viral_score) THEN "High Potential"
    ELSE IF RLe(FInt(50), viral_score) THEN "Moderate Potential"
    ELSE "Low Potential"

\* Lines 277-282.
ViralLabel(viral_score) ==
    IF RLe(FInt(65), viral_score) THEN "High Potential"
    ELSE IF RLe(FInt(40), viral_score) THEN "Moderate Potential"
    ELSE "Low Potential"

\* cond ? <<text>> : <<>>, the shape of every "if ...: xs.append(text)".
When(cond, text) == IF cond THEN <<text>> ELSE <<>>

\* Lines 284-308: the strengths list.
Strengths(inp) ==
    LET likes  == Get(inp, "likes", 0)
        shares == Get(inp, "shares", 0)
    IN  When(RLt(Lit(5, 10), SavesRatio(inp)), "strong saves (people are bookmarking your content)")
        \o When(RLt(Lit(1, 10), CommentRatio(inp)), "high comment rate (great conversation starter)")
        \o When(RLt(FMul(FInt(likes), Lit(5, 100)), FInt(shares)),
                "solid share rate (content is spreading)")
        \o When(RLt(Lit(15, 100), FollowConv(inp)),
                "excellent follow conversion from profile visits")
        \o When(Get(inp, "reposts", 0) > 0, "getting reposts (very strong signal)")

\* Lines 284-305: the weaknesses list (each an elif of the strength test).
Weaknesses(inp) ==
    LET likes  == Get(inp, "likes", 0)
        shares == Get(inp, "shares", 0)
        pv     == Get(inp, "profile_visits", 0)
    IN  When(~RLt(Lit(5, 10), SavesRatio(inp)) /\ RLt(SavesRatio(inp), Lit(2, 10)),
             "saves are low - your content isn't being saved for later")
        \o When(~RLt(Lit(1, 10), CommentRatio(inp)) /\ RLt(CommentRatio(inp), Lit(3, 100)),
                "very few comments - add a direct question in your caption")
        \o When(~RLt(FMul(FInt(likes), Lit(5, 100)), FInt(shares)) /\ shares = 0,
                "zero shares - make it more quote-worthy or surprising")
        \o When(~RLt(Lit(15, 100), FollowConv(inp)) /\ pv > 0
                    /\ RLt(FollowConv(inp), Lit(5, 100)),
                "people visit your profile but don't follow - bio or grid may need work")

\* sep.join(xs[:2])
JoinFirstTwo(xs, sep) ==
    IF Len(xs) = 0 THEN ""
    ELSE IF Len(xs) = 1 THEN xs[1]
    ELSE xs[1] \o sep \o xs[2]

\* Lines 310-317.
Diagnosis(inp) ==
    LET strengths  == Strengths(inp)
        weaknesses == Weaknesses(inp)
    IN  IF strengths /= <<>> /\ weaknesses /= <<>>
        THEN "Your post shows " \o JoinFirstTwo(strengths, ", ")
             \o ". The main area to improve: " \o weaknesses[1] \o "."
        ELSE IF strengths /= <<>>
        THEN "Strong post: " \o JoinFirstTwo(strengths, ", ")
             \o ". Keep replicating what's working."
        ELSE IF weaknesses /= <<>>
        THEN "This post is underperforming. Key issues: "
             \o JoinFirstTwo(weaknesses, "; ") \o "."
        ELSE "Solid baseline metrics. Focus on saves and comments to push into viral range."

\* The lever texts of lines 323-338.
SavesLever == "Add a \"save this for later\" or \"bookmark this\" CTA at the end of your caption"

CommentLever == "End your caption with a specific question"

ShareLever == "Make your hook more shareable"

FewHashtagsLever(hashtags) ==
    "You're using " \o ToString(hashtags) \o " hashtags - try 15-20 relevant niche tags"

ManyHashtagsLever(hashtags) ==
    "You're using " \o ToString(hashtags) \o " hashtags - Instagram can penalise over-tagging"

ShortCaptionLever == "Your caption is very short"

LongCaptionLever == "Long captions can lose people"

BioLever == "Optimise your bio"

\* A faulty variant of line 325: the threshold is 0.005 instead of 0.05.
CommentRule_strict(inp) == RLt(CommentRatio(inp), Lit(5, 1000))

\* Line 325: comment_ratio < 0.05.
CommentRule(inp) == RLt(CommentRatio(inp), Lit(5, 100))

\* Lines 320-338: the levers the conditional rules append, in the order the
\* rules are evaluated.
TriggeredLevers(inp) ==
    LET hashtags       == Get(inp, "hashtags", 0)
        caption_length == Get(inp, "caption_length", 0)
    IN  When(RLt(SavesRatio(inp), Lit(4, 10)), SavesLever)
        \o When(CommentRule(inp), CommentLever)
        \o When(Get(inp, "shares", 0) < 3, ShareLever)
        \o When(hashtags < 10, FewHashtagsLever(hashtags))
        \o When(~(hashtags < 10) /\ hashtags > 28, ManyHashtagsLever(hashtags))
        \o When(caption_length < 80, ShortCaptionLever)
        \o When(~(caption_length < 80) /\ caption_length > 400, LongCaptionLever)
        \o When(RLt(FollowConv(inp), Lit(8, 100)) /\ Get(inp, "profile_visits", 0) > 5,
                BioLever)

\* Lines 341-345.
DefaultLevers ==
    << "Post at peak times: Tuesday 7-9 PM or Thursday 6-8 PM for highest reach.",
       "Add a carousel",
       "Use the first 3 lines of your caption as a hook" >>

\* Lines 346-349: for d in defaults: stop at three levers, else append d.
RECURSIVE PadDefaults(_, _)
PadDefaults(levers, k) ==
    IF k > Len(DefaultLevers) \/ Len(levers) >= 3 THEN levers
    ELSE PadDefaults(Append(levers, DefaultLevers[k]), k + 1)

\* A faulty variant of line 350: the list is not cut to three.
FirstThree_all(levers) == levers

\* Line 350: levers[:3].
FirstThree(levers) == SubSeq(levers, 1, Min(3, Len(levers)))

GrowthLevers(inp) == FirstThree(PadDefaults(TriggeredLevers(inp), 1))

\* Line 354.
BestTimeText(times) ==
    "Best window for this type of content: " \o times[1].slot
    \o ". Secondary option: " \o times[2].slot \o "."

\* Lines 261-368: the records generate_ai_strategy can return (avgs is
\* accepted and not read).
generate_ai_strategy(inp, viral_score, impressions, avgs, catalog) ==
    LET times == get_best_times(inp, catalog)
    IN  { [viral_label   |-> ViralLabel(viral_score),
           diagnosis     |-> Diagnosis(inp),
           growth_levers |-> GrowthLevers(inp),
           best_times    |-> times,
           best_time     |-> BestTimeText(times),
           projected_25  |-> p25,
           projected_opt |-> popt] :
            p25  \in IntOf(FMul(FInt(impressions), Lit(125, 100))),
            popt \in IntOf(FMul(FInt(impressions), Lit(160, 100))) }

\* ------------------------------------------------------------------------
\* views.py: the request handlers over the Post store
\* A text is a sequence of one-character strings; a JSON value that may be
\* a string or something else is a record tagged by its type.
\* ------------------------------------------------------------------------

\* models.py lines 4-45 with views.py lines 51-55: the rows of one session
\* in creation order.
SessionPosts(store, session_key) ==
    SelectSeq(store, LAMBDA p : p.session_key = session_key)

\* views.py lines 59-65: the keys of a stored row handed to the engine.
HistoryRecord(p) ==
    [k \in {"likes", "saves", "comments", "shares", "follows",
            "predicted_impressions", "viral_score", "hashtags"} |-> p[k]]

\* views.py lines 33-36 (and 107-110, 135-138, 277-280): a body that is
\* not JSON.
InvalidJson(op) == [op |-> op, status |-> 400, error |-> "Invalid JSON"]

\* str.strip(): leading and trailing whitespace removed.
Whitespace == {" ", "\t", "\n"}

RECURSIVE LStrip(_)
LStrip(s) ==
    IF s /= <<>> /\ Head(s) \in Whitespace THEN LStrip(Tail(s)) ELSE s

RECURSIVE RStrip(_)
RStrip(s) ==
    IF s /= <<>> /\ s[Len(s)] \in Whitespace
    THEN RStrip(SubSeq(s, 1, Len(s) - 1)) ELSE s

Strip(s) == RStrip(LStrip(s))

\* str.lower() on the letters the requests use.
LowerChar(c) ==
    CASE c = "S" -> "s" [] c = "N" -> "n" [] c = "P" -> "p" [] c = "F" -> "f"
      [] c = "H" -> "h" [] c = "A" -> "a" [] c = "E" -> "e" [] c = "T" -> "t"
      [] OTHER -> c

Lower(s) == [i \in 1..Len(s) |-> LowerChar(s[i])]

\* w in msg
Contains(msg, w) ==
    \E i \in 1..(Len(msg) - Len(w) + 1) : SubSeq(msg, i, i + Len(w) - 1) = w

\* The keywords of views.py lines 376, 391, 402, 409.
KwSave == <<"s", "a", "v", "e">>

KwPlanning ==
    { <<"n", "e", "x", "t">>, <<"p", "l", "a", "n">>,
      <<"c", "a", "l", "e", "n", "d", "a", "r">>,
      <<"c", "o", "n", "t", "e", "n", "t">>, <<"p", "o", "s", "t">> }

KwFollow == <<"f", "o", "l", "l", "o", "w">>

KwHashtag == <<"h", "a", "s", "h", "t", "a", "g">>

\* A reply text: which of the responder's texts it is and the figures
\* formatted into it.
Text(topic, figures) == [topic |-> topic, figures |-> figures, type |-> "text"]

\* max(posts, key=lambda p: p['predicted_impressions']): the first row
\* with the largest value.
BestPost(db_posts) ==
    LET top == CHOOSE v \in {db_posts[i].predicted_impressions : i \in DOMAIN db_posts} :
                   \A i \in DOMAIN db_posts : db_posts[i].predicted_impressions <= v
        i0  == CHOOSE i \in DOMAIN db_posts :
                   /\ db_posts[i].predicted_impressions = top
                   /\ \A j \in 1..(i - 1) : db_posts[j].predicted_impressions /= top
    IN  db_posts[i0]

\* A faulty variant: the planning keywords are tested before 'save'.
_fallback_agent_response_planning_first(message, db_posts) ==
    LET msg   == Lower(message)
        count == Len(db_posts)
    IN  IF count = 0 THEN {Text("no_data", <<>>)}
        ELSE
        LET avg_saves   == IntDiv(SumSeq(MapSeq(db_posts, LAMBDA p : p.saves)), count)
            avg_likes   == IntDiv(SumSeq(MapSeq(db_posts, LAMBDA p : p.likes)), count)
            avg_score   == FDiv(FSumSeq(MapSeq(db_posts, LAMBDA p : p.viral_score)),
                                FInt(count))
            avg_imp     == IntDiv(SumSeq(MapSeq(db_posts,
                                                LAMBDA p : p.predicted_impressions)),
                                  count)
            best_post   == BestPost(db_posts)
            saves_ratio == FDiv(avg_saves, FMax(avg_likes, FInt(1)))
        IN  IF Contains(msg, KwSave) /\ ~\E w \in KwPlanning : Contains(msg, w)
            THEN IF RLt(saves_ratio, Lit(3, 10))
                 THEN {Text("saves_low", <<r>>) : r \in RoundTo(saves_ratio, 100)}
                 ELSE {Text("saves_solid", <<r>>) : r \in RoundTo(saves_ratio, 100)}
            ELSE IF \E w \in KwPlanning : Contains(msg, w)
            THEN {Text("planning",
                       <<FInt(count), sc, im, FInt(best_post.predicted_impressions),
                         FInt(best_post.saves), FInt(best_post.likes)>>) :
                     sc \in RoundTo(avg_score, 10), im \in RoundTo(avg_imp, 1)}
            ELSE IF Contains(msg, KwFollow) THEN {Text("follows", <<>>)}
            ELSE IF Contains(msg, KwHashtag)
            THEN {Text("hashtags", <<t>>) :
                     t \in RoundTo(IntDiv(SumSeq(MapSeq(db_posts, LAMBDA p : p.hashtags)),
                                          count), 1)}
            ELSE {Text(IF RLe(Lit(3, 10), saves_ratio)
                       THEN "generic_ok" ELSE "generic_main_lever",
                       <<FInt(count), li, sa, sc, im, r>>) :
                     li \in RoundTo(avg_likes, 1), sa \in RoundTo(avg_saves, 1),
                     sc \in RoundTo(avg_score, 10), im \in RoundTo(avg_imp, 1),
                     r \in RoundTo(saves_ratio, 100)}

\* views.py lines 356-422: the replies the rule-based responder can give.
_fallback_agent_response(message, db_posts) ==
    LET msg   == Lower(message)
        count == Len(db_posts)
    IN  IF count = 0 THEN {Text("no_data", <<>>)}
        ELSE
        LET avg_saves   == IntDiv(SumSeq(MapSeq(db_posts, LAMBDA p : p.saves)), count)
            avg_likes   == IntDiv(SumSeq(MapSeq(db_posts, LAMBDA p : p.likes)), count)
            avg_score   == FDiv(FSumSeq(MapSeq(db_posts, LAMBDA p : p.viral_score)),
                                FInt(count))
            avg_imp     == IntDiv(SumSeq(MapSeq(db_posts,
                                                LAMBDA p : p.predicted_impressions)),
                                  count)
            best_post   == BestPost(db_posts)
            saves_ratio == FDiv(avg_saves, FMax(avg_likes, FInt(1)))
        IN  IF Contains(msg, KwSave)
            THEN IF RLt(saves_ratio, Lit(3, 10))
                 THEN {Text("saves_low", <<r>>) : r \in RoundTo(saves_ratio, 100)}
                 ELSE {Text("saves_solid", <<r>>) : r \in RoundTo(saves_ratio, 100)}
            ELSE IF \E w \in KwPlanning : Contains(msg, w)
            THEN {Text("planning",
                       <<FInt(count), sc, im, FInt(best_post.predicted_impressions),
                         FInt(best_post.saves), FInt(best_post.likes)>>) :
                     sc \in RoundTo(avg_score, 10), im \in RoundTo(avg_imp, 1)}
            ELSE IF Contains(msg, KwFollow) THEN {Text("follows", <<>>)}
            ELSE IF Contains(msg, KwHashtag)
            THEN {Text("hashtags", <<t>>) :
                     t \in RoundTo(IntDiv(SumSeq(MapSeq(db_posts, LAMBDA p : p.hashtags)),
                                          count), 1)}
            ELSE {Text(IF RLe(Lit(3, 10), saves_ratio)
                       THEN "generic_ok" ELSE "generic_main_lever",
                       <<FInt(count), li, sa, sc, im, r>>) :
                     li \in RoundTo(avg_likes, 1), sa \in RoundTo(avg_saves, 1),
                     sc \in RoundTo(avg_score, 10), im \in RoundTo(avg_imp, 1),
                     r \in RoundTo(saves_ratio, 100)}

\* views.py lines 146-268: what the grounding text is built from.
_build_agent_system_prompt(db_posts, extra_context) ==
    [count    |-> Len(db_posts),
     strategy |-> db_posts /= <<>> /\ extra_context.last_ai,
     forecast |-> db_posts /= <<>> /\ extra_context.forecast]

\* views.py lines 310-318: the last 20 earlier turns that have a user or
\* assistant role and a non-empty content, then the current message.
MAX_HISTORY_TURNS == 10

ConversationMessages(history_msgs, user_message) ==
    LET n        == Len(history_msgs)
        relevant == SubSeq(history_msgs, Max(1, n - MAX_HISTORY_TURNS * 2 + 1), n)
    IN  Append(SelectSeq(relevant,
                         LAMBDA turn : /\ turn.role \in {"user", "assistant"}
                                       /\ turn.content /= <<>>),
               [role |-> "user", content |-> user_message])

\* The ways the call of views.py lines 328-345 can end: no response within
\* the timeout, no connection, or a response with a status and a body.
JsonNull == [type |-> "null"]

ExternalText == Text("external", <<>>)

Payloads ==
    { [choices |-> <<[message |-> [role |-> "assistant", content |-> ExternalText]]>>],
      [choices |-> <<[message |-> [role |-> "assistant", content |-> JsonNull]]>>],
      [choices |-> <<[message |-> [role |-> "assistant"]]>>],
      [choices |-> <<>>],
      [error |-> [message |-> "overloaded"]] }

ExternalOutcomes ==
    { [kind |-> "timeout"], [kind |-> "network_error"],
      [status |-> 500, kind |-> "response", body |-> [json |-> FALSE]],
      [status |-> 200, kind |-> "response", body |-> [json |-> FALSE]] }
    \cup
    { [status |-> 200, kind |-> "response", body |-> [json |-> TRUE, data |-> d]] :
        d \in Payloads }

\* views.py lines 345-347: raise_for_status(), resp.json() and
\* data['choices'][0]['message']['content'], each of which raises or goes on.
Raises(outcome) ==
    \/ outcome.kind /= "response"
    \/ outcome.status \notin 200..299
    \/ ~outcome.body.json
    \/ "choices" \notin DOMAIN outcome.body.data
    \/ outcome.body.data.choices = <<>>
    \/ "message" \notin DOMAIN outcome.body.data.choices[1]
    \/ "content" \notin DOMAIN outcome.body.data.choices[1].message

Content(outcome) == outcome.body.data.choices[1].message.content


\* ------------------------------------------------------------------------
\* State shared by the specifications
\* ------------------------------------------------------------------------

NoResult == [op |-> "none"]

NoMetrics == [caption_length |-> 0, hashtags |-> 0, likes |-> 0, saves |-> 0, comments |-> 0,
              shares |-> 0, follows |-> 0, profile_visits |-> 0,
              reposts |-> 0]

\* The part of the state a pure engine call starts from: an empty store,
\* the catalog as loaded, nothing returned yet.
Fresh ==
    /\ posts = <<>>
    /\ POSTING_TIMES = Catalog
    /\ result = NoResult
    /\ observed = <<>>

\* ------------------------------------------------------------------------
\* Specification SpecImpressions: predict_impressions on bounded inputs
\* ------------------------------------------------------------------------

\* The end-to-end example of the specification.
ExampleMetrics ==
    [caption_length |-> 150, hashtags |-> 15, likes |-> 500, saves |-> 250, comments |-> 60,
     shares |-> 30, follows |-> 20, profile_visits |-> 100, reposts |-> 2]

ImpInputs ==
    { [caption_length |-> c, hashtags |-> h, likes |-> l, saves |-> s,
       comments |-> o[1], shares |-> o[2], follows |-> o[3],
       profile_visits |-> o[4], reposts |-> o[5]] :
        l \in {0, 1, 500}, s \in {0, 1, 250}, c \in {0, 150, 500}, h \in {0, 15, 40},
        o \in {<<0, 0, 0, 0, 0>>, <<60, 30, 20, 100, 2>>} }

\* History records: one without the predicted_impressions key, and records
\* whose predicted_impressions is zero, minimal or large.
ImpHistRecords ==
    {[likes |-> 10]} \cup [likes : {10}, predicted_impressions : {0, 100, 20000}]

InitImpressions ==
    /\ Fresh
    /\ arg_impressions = 0
    /\ arg_viral_score = FInt(0)
    /\ inputs \in ImpInputs
    /\ history \in SeqsUpTo(ImpHistRecords, MaxHist)

PredictImpressions ==
    /\ result = NoResult
    /\ \E v \in predict_impressions(inputs, history) :
           result' = [op |-> "predict_impressions", value |-> v]
    /\ UNCHANGED <<posts, POSTING_TIMES, inputs, history, arg_impressions, arg_viral_score, observed>>

NextImpressions == PredictImpressions

SpecImpressions == InitImpressions /\ [][NextImpressions]_vars

\* C1: for non-negative integer counters and any history of non-negative
\* predicted_impressions (empty, all-zero, or positive), predict_impressions
\* returns an integer of at least 100, on the formula-only path and on the
\* history-calibrated path.
C1_ImpressionsAtLeast100 ==
    result.op = "predict_impressions" =>
        /\ result.value \in Int
        /\ result.value >= 100

\* C1 witnesses: the calibrated path with the smallest scale (no saves) from
\* an all-zero metrics record has returned.
C1_Witness ==
    /\ result.op = "predict_impressions"
    /\ inputs = NoMetrics
    /\ PositiveImps(history) /= <<>>
    /\ Len(PositiveImps(history)) < Len(history)
    /\ result.value >= 100

\* C9 as stated: the example metrics with an empty history return 31257.
C9_Original ==
    (result.op = "predict_impressions" /\ inputs = ExampleMetrics /\ history = <<>>)
        => result.value = 31257

\* C9 amended: for the example metrics and an empty history the base score
\* is 2176, the caption multiplier is 1.08 and the hashtag multiplier 1.05,
\* and predict_impressions returns floor(2176 * 1.08 * 1.05 * 12.5 + 400)
\* = floor(31244.8) = 31244.
C9_ExampleImpressions ==
    (result.op = "predict_impressions" /\ inputs = ExampleMetrics /\ history = <<>>)
        => /\ Val(FormulaBase(inputs)) = RInt(2176)
           /\ Val(CaptionMultiplier(inputs)) = R(108, 100)
           /\ Val(HashtagMultiplier(inputs)) = R(105, 100)
           /\ result.value = 31244

C9_Witness ==
    /\ result.op = "predict_impressions"
    /\ inputs = ExampleMetrics
    /\ history = <<>>
    /\ result.value = 31244

\* ------------------------------------------------------------------------
\* Specification SpecViral: compute_viral_score on bounded inputs
\* ------------------------------------------------------------------------

ViralInputs ==
    [caption_length : {0}, hashtags : {0, 7, 15, 40}, likes : {0, 1, 100},
     saves : {0, 1, 100}, comments : {0, 1, 60}, shares : {0, 1, 30},
     follows : {0, 20}, profile_visits : {0, 1, 100}, reposts : {0}]

InitViral ==
    /\ Fresh
    /\ arg_impressions = 0
    /\ arg_viral_score = FInt(0)
    /\ inputs \in ViralInputs
    /\ history = <<>>

ComputeViralScore ==
    /\ result = NoResult
    /\ \E v \in compute_viral_score(inputs) :
           result' = [op |-> "compute_viral_score", value |-> v]
    /\ UNCHANGED <<posts, POSTING_TIMES, inputs, history, arg_impressions, arg_viral_score, observed>>

NextViral == ComputeViralScore

SpecViral == InitViral /\ [][NextViral]_vars

NoEngagement(inp) ==
    /\ inp.likes = 0
    /\ inp.saves = 0
    /\ inp.comments = 0
    /\ inp.shares = 0
    /\ inp.follows = 0

\* C2: for non-negative integer counters compute_viral_score returns a
\* value in [0.0, 100.0], and the value is 0.0 if and only if likes, saves,
\* comments, shares and follows are all 0, whatever profile_visits and
\* hashtags are.
C2_ViralScoreRange ==
    result.op = "compute_viral_score" =>
        /\ RLe(RInt(0), result.value)
        /\ RLe(result.value, RInt(100))
        /\ (Val(result.value) = RInt(0)) <=> NoEngagement(inputs)

\* C2 witness: a record without engagement but with profile visits and
\* hashtags has been scored 0.0.
C2_Witness ==
    /\ result.op = "compute_viral_score"
    /\ NoEngagement(inputs)
    /\ inputs.profile_visits > 0
    /\ inputs.hashtags > 0
    /\ Val(result.value) = RInt(0)

\* ------------------------------------------------------------------------
\* Specification SpecAverages: compute_averages on bounded histories
\* ------------------------------------------------------------------------

\* History records: full records, and one that lacks every averaged key.
AvgHistRecords ==
    {[follows |-> 1]} \cup
    [likes : {1, 2}, saves : {0, 3}, comments : {0}, shares : {5},
     predicted_impressions : {0, 100, 301}]

InitAverages ==
    /\ Fresh
    /\ arg_impressions = 0
    /\ arg_viral_score = FInt(0)
    /\ inputs = NoMetrics
    /\ history \in SeqsUpTo(AvgHistRecords, MaxHist)

ComputeAverages ==
    /\ result = NoResult
    /\ result' = [op |-> "compute_averages", value |-> compute_averages(history)]
    /\ UNCHANGED <<posts, POSTING_TIMES, inputs, history, arg_impressions, arg_viral_score, observed>>

NextAverages == ComputeAverages

SpecAverages == InitAverages /\ [][NextAverages]_vars

\* The sum of key k (0 when absent) over the records of hist at indices I.
RECURSIVE SumOver(_, _, _)
SumOver(hist, k, I) ==
    IF I = {} THEN 0
    ELSE LET i == CHOOSE j \in I : TRUE
         IN  Get(hist[i], k, 0) + SumOver(hist, k, I \ {i})

\* v is an integer nearest to sum / n.
IsRoundedMean(v, sum, n) == v \in Int /\ 2 * Abs(v * n - sum) <= n

PositiveIdx(hist) ==
    {i \in DOMAIN hist : Get(hist[i], "predicted_impressions", 0) > 0}

\* C10: compute_averages returns 0 for likes, saves, comments, shares and
\* impressions when history is empty; for a non-empty history the
\* impressions entry is the rounded mean of only the records whose
\* predicted_impressions is positive (0 when there is none), while likes,
\* saves, comments and shares are (rounded) means over all records.
C10_Averages ==
    result.op = "compute_averages" =>
        LET avgs == result.value
            pos  == PositiveIdx(history)
        IN  /\ DOMAIN avgs = {"likes", "saves", "comments", "shares", "impressions"}
            /\ history = <<>> => \A k \in DOMAIN avgs : avgs[k] = 0
            /\ history /= <<>> =>
                /\ \A k \in {"likes", "saves", "comments", "shares"} :
                      IsRoundedMean(avgs[k], SumOver(history, k, DOMAIN history),
                                    Len(history))
                /\ pos = {} => avgs.impressions = 0
                /\ pos /= {} =>
                      IsRoundedMean(avgs.impressions,
                                    SumOver(history, "predicted_impressions", pos),
                                    Cardinality(pos))

\* C10 witness: averages were computed over a history that mixes a record
\* with positive predicted_impressions and one without, so the impressions
\* mean differs from the mean over all records.
C10_Witness ==
    /\ result.op = "compute_averages"
    /\ PositiveIdx(history) /= {}
    /\ PositiveIdx(history) /= DOMAIN history
    /\ result.value.impressions >= 100

\* ------------------------------------------------------------------------
\* Specification SpecBestTimes: repeated get_best_times calls
\* ------------------------------------------------------------------------

\* Metrics whose (saves, comments, hashtags) triples include distinct
\* triples with the same seed: 3 * 7 = 7 * 3.
BestInputs ==
    [caption_length : {0}, hashtags : {0, 7}, likes : {5}, saves : {0, 3}, comments : {0, 1},
     shares : {0}, follows : {0}, profile_visits : {0}, reposts : {0}]

Triple(inp) == <<Get(inp, "saves", 0), Get(inp, "comments", 0), Get(inp, "hashtags", 0)>>

InitBestTimes ==
    /\ Fresh
    /\ arg_impressions = 0
    /\ arg_viral_score = FInt(0)
    /\ inputs = NoMetrics
    /\ history = <<>>

GetBestTimes ==
    /\ Len(observed) < MaxCalls
    /\ \E m \in BestInputs :
        LET times == get_best_times(m, POSTING_TIMES)
        IN  /\ inputs' = m
            /\ result' = [op |-> "get_best_times", value |-> times]
            /\ POSTING_TIMES' =
                   CatalogAfterShuffle(POSTING_TIMES,
                                       Shuffle(POSTING_TIMES, Seed(m)))
            /\ observed' = Append(observed, [value |-> times, args |-> Triple(m)])
    /\ UNCHANGED <<posts, history, arg_impressions, arg_viral_score>>

NextBestTimes == GetBestTimes

SpecBestTimes == InitBestTimes /\ [][NextBestTimes]_vars

\* C6: get_best_times returns exactly 3 entries that are pairwise distinct
\* slots of the fixed 10-slot catalog, entry 0 labeled BEST and entries 1
\* and 2 labeled GOOD; and any two calls with the same (saves, comments,
\* hashtags) triple return the identical ordered result, whatever calls
\* happened in between.
C6_BestTimes ==
    /\ \A c \in DOMAIN observed :
        LET t == observed[c].value
        IN  /\ Len(t) = 3
            /\ \A i \in 1..3 : t[i].slot \in Range(Catalog)
            /\ \A i, j \in 1..3 : i /= j => t[i].slot /= t[j].slot
            /\ t[1].label = "BEST"
            /\ t[2].label = "GOOD"
            /\ t[3].label = "GOOD"
    /\ \A c, e \in DOMAIN observed :
        observed[c].args = observed[e].args => observed[c].value = observed[e].value

\* C6 witness: the same triple was passed twice with a call for another
\* triple in between.
C6_Witness ==
    /\ Len(observed) = 3
    /\ observed[1].args = observed[3].args
    /\ observed[2].args /= observed[1].args
    /\ observed[2].value /= observed[1].value
    /\ observed[3].value = observed[1].value

\* ------------------------------------------------------------------------
\* Specification SpecForecast: build_forecast_report on bounded inputs
\* ------------------------------------------------------------------------

\* History records in the shape analyze hands over (views.py lines 59-65):
\* two engagement profiles, each with every impressions value.
ForecastImps == {0, 1, 100, 300, 500}

ForecastRecords ==
    { [hashtags |-> 15, likes |-> 100, saves |-> 50, comments |-> 10, shares |-> 5,
       follows |-> 2, viral_score |-> Lit(534, 10), predicted_impressions |-> i] :
        i \in ForecastImps }
    \cup
    { [hashtags |-> 0, likes |-> 200, saves |-> 20, comments |-> 0, shares |-> 0,
       follows |-> 0, viral_score |-> Lit(121, 10), predicted_impressions |-> i] :
        i \in ForecastImps }

ForecastInputs ==
    { [caption_length |-> 150, hashtags |-> 15, likes |-> 100, saves |-> 50, comments |-> 10,
       shares |-> 5, follows |-> 2, profile_visits |-> 10, reposts |-> 0],
      [caption_length |-> 0, hashtags |-> 0, likes |-> 300, saves |-> 20, comments |-> 0,
       shares |-> 0, follows |-> 0, profile_visits |-> 0, reposts |-> 0] }

InitForecast ==
    /\ Fresh
    /\ inputs \in ForecastInputs
    /\ history \in SeqsUpTo(ForecastRecords, MaxHist)
    /\ arg_impressions \in {1, 100, 300}
    /\ arg_viral_score = FInt(0)

BuildForecastReport ==
    /\ result = NoResult
    /\ \E rep \in build_forecast_report(history, inputs, arg_impressions) :
           result' = [op |-> "build_forecast_report", value |-> rep]
    /\ LET all_posts == AllPosts(history, inputs, arg_impressions)
       IN  /\ history' = HistoryAfterForecast(history, all_posts)
           /\ inputs' = InputsAfterForecast(inputs, all_posts[Len(all_posts)])
    /\ UNCHANGED <<posts, POSTING_TIMES, arg_impressions, arg_viral_score, observed>>

NextForecast == BuildForecastReport

SpecForecast == InitForecast /\ [][NextForecast]_vars

CallImps ==
    Append(MapSeq(history, LAMBDA p : Get(p, "predicted_impressions", 0)),
           arg_impressions)

\* The rating the thresholds give a series whose coefficient of variation
\* is sqrt(variance) / denom (denom > 0).
RatingFor(variance, denom) ==
    IF RLt(variance, RMul(R(1, 16), RMul(denom, denom))) THEN "High"
    ELSE IF RLt(variance, RMul(R(1, 4), RMul(denom, denom))) THEN "Medium"
    ELSE "Low"

\* The population variance of a series, from the sums of x and of x * x:
\* E[x^2] - E[x]^2.
PopVariance(xs) ==
    LET n  == Len(xs)
        s1 == SumSeq(xs)
        s2 == SumSeq(MapSeq(xs, LAMBDA x : x * x))
    IN  R(n * s2 - s1 * s1, n * n)

\* C8 as stated: the rating is "Building" for a combined count of exactly
\* 2, and for a combined count >= 3 it is "High" if the coefficient of
\* variation (population standard deviation / mean) of the impression
\* series is < 0.25, "Medium" if it is >= 0.25 and < 0.5, and "Low"
\* otherwise.  (Stated for series with a positive mean, where the
\* coefficient of variation is defined.)
C8_Original ==
    (result.op = "build_forecast_report" /\ result.value /= None) =>
        LET xs     == CallImps
            rating == result.value.engagement_velocity.consistency
        IN  /\ Len(xs) = 2 => rating = "Building"
            /\ (Len(xs) >= 3 /\ SumSeq(xs) > 0) =>
                  rating = RatingFor(PopVariance(xs), R(SumSeq(xs), Len(xs)))

\* C8 amended: the rating is "Building" for a combined count of exactly 2,
\* and for a combined count >= 3 it is "High" if cv < 0.25, "Medium" if
\* 0.25 <= cv < 0.5 and "Low" otherwise, where cv is the population
\* standard deviation of the impression series divided by max(mean, 1).
C8_Consistency ==
    (result.op = "build_forecast_report" /\ result.value /= None) =>
        LET xs     == CallImps
            rating == result.value.engagement_velocity.consistency
            mean   == R(SumSeq(xs), Len(xs))
        IN  /\ Len(xs) = 2 => rating = "Building"
            /\ Len(xs) >= 3 =>
                  rating = RatingFor(PopVariance(xs),
                                     IF RLt(mean, RInt(1)) THEN RInt(1) ELSE mean)

\* C8 witness: a series of four points whose coefficient of variation is
\* exactly 0.5 (mean 200, standard deviation 100) has been rated "Low".
C8_Witness ==
    /\ result.op = "build_forecast_report"
    /\ CallImps = <<100, 300, 100, 300>>
    /\ result.value.engagement_velocity.consistency = "Low"

\* ------------------------------------------------------------------------
\* Specification SpecStrategy: generate_ai_strategy on bounded inputs
\* ------------------------------------------------------------------------

\* The input of the specification's lever example.
LeverExampleMetrics ==
    [caption_length |-> 500, hashtags |-> 40, likes |-> 1000, saves |-> 10, comments |-> 5,
     shares |-> 1, follows |-> 0, profile_visits |-> 0, reposts |-> 0]

\* Metrics on both sides of every lever rule: from no rule triggered
\* (likes 10, shares 3, 15 hashtags, caption 150, no profile visits) to
\* six triggered.
StrategyInputs ==
    { [caption_length |-> c, hashtags |-> h, likes |-> l, saves |-> 10, comments |-> 5,
       shares |-> s, follows |-> f[1], profile_visits |-> f[2],
       reposts |-> r] :
        l \in {10, 1000}, s \in {1, 3}, c \in {50, 150, 500}, h \in {5, 15, 40},
        f \in {<<0, 0>>, <<0, 10>>, <<2, 10>>}, r \in {0, 1} }

StrategyScores ==
    {FInt(0), Lit(399, 10), FInt(40), Lit(649, 10), FInt(65), FInt(100)}

InitStrategy ==
    /\ Fresh
    /\ inputs \in StrategyInputs
    /\ history = <<>>
    /\ arg_impressions \in {100, 31244}
    /\ arg_viral_score \in StrategyScores

GenerateAiStrategy ==
    /\ result = NoResult
    /\ \E ai \in generate_ai_strategy(inputs, arg_viral_score, arg_impressions,
                                      compute_averages(history), POSTING_TIMES) :
           result' = [op |-> "generate_ai_strategy", value |-> ai]
    /\ POSTING_TIMES' =
           CatalogAfterShuffle(POSTING_TIMES, Shuffle(POSTING_TIMES, Seed(inputs)))
    /\ UNCHANGED <<posts, inputs, history, arg_impressions, arg_viral_score, observed>>

NextStrategy == GenerateAiStrategy

SpecStrategy == InitStrategy /\ [][NextStrategy]_vars

\* The 8 conditional lever rules in evaluation order, each as
\* <<condition, lever>>, with the ratios written as integer inequalities:
\* saves/max(likes,1) < 0.4, comments/max(likes,1) < 0.05, shares < 3,
\* hashtags < 10, hashtags > 28, caption_length < 80, caption_length > 400,
\* follows/profile_visits < 0.08 with profile_visits > 5.
LeverRules(inp) ==
    LET L == IF inp.likes > 1 THEN inp.likes ELSE 1
    IN  << <<10 * inp.saves < 4 * L, SavesLever>>,
           <<20 * inp.comments < L, CommentLever>>,
           <<inp.shares < 3, ShareLever>>,
           <<inp.hashtags < 10, FewHashtagsLever(inp.hashtags)>>,
           <<inp.hashtags > 28, ManyHashtagsLever(inp.hashtags)>>,
           <<inp.caption_length < 80, ShortCaptionLever>>,
           <<inp.caption_length > 400, LongCaptionLever>>,
           <<inp.profile_visits > 5 /\ 25 * inp.follows < 2 * inp.profile_visits,
             BioLever>> >>

\* The levers of the rules whose condition holds, in rule order.
TriggeredByRules(inp) ==
    MapSeq(SelectSeq(LeverRules(inp), LAMBDA r : r[1]), LAMBDA r : r[2])

\* C4: growth_levers has exactly 3 entries; the levers triggered by the 8
\* conditional rules come first, in rule-evaluation order, only the first
\* three triggered being kept; a default lever appears only when fewer than
\* 3 rules triggered, the defaults being taken in their fixed order after
\* all triggered levers.
C4_GrowthLevers ==
    result.op = "generate_ai_strategy" =>
        LET levers    == result.value.growth_levers
            triggered == TriggeredByRules(inputs)
            k         == Min(3, Len(triggered))
        IN  /\ Len(levers) = 3
            /\ \A i \in 1..k : levers[i] = triggered[i]
            /\ \A i \in (k + 1)..3 : levers[i] = DefaultLevers[i - k]
            /\ (\E i \in 1..3 : levers[i] \in Range(DefaultLevers))
                   => Len(triggered) < 3

\* C4 witness: six rules triggered and only the first three kept.
C4_Witness ==
    /\ result.op = "generate_ai_strategy"
    /\ Len(TriggeredByRules(inputs)) = 6
    /\ result.value.growth_levers = <<SavesLever, CommentLever, ShareLever>>

\* C5 as stated: for likes=1000, saves=10, comments=5, shares=1,
\* hashtags=40, caption_length=500 the 3 levers returned include the saves
\* CTA lever, the hashtag-reduction lever and the caption-shortening lever,
\* in that order.
C5_Original ==
    (result.op = "generate_ai_strategy" /\ inputs = LeverExampleMetrics) =>
        LET levers == result.value.growth_levers
        IN  \E i, j, k \in 1..Len(levers) :
                /\ i < j /\ j < k
                /\ levers[i] = SavesLever
                /\ levers[j] = ManyHashtagsLever(40)
                /\ levers[k] = LongCaptionLever

\* C5 amended: for likes=1000, saves=10, comments=5, shares=1, hashtags=40,
\* caption_length=500 five rules trigger (saves CTA, comment question,
\* shareable hook, hashtag reduction, caption shortening) and the 3 levers
\* returned are the first three: the saves CTA lever, the comment-question
\* lever and the shareable-hook lever; the hashtag-reduction and
\* caption-shortening levers are cut off.
C5_ExampleLevers ==
    (result.op = "generate_ai_strategy" /\ inputs = LeverExampleMetrics) =>
        /\ TriggeredByRules(inputs) =
               <<SavesLever, CommentLever, ShareLever, ManyHashtagsLever(40),
                 LongCaptionLever>>
        /\ result.value.growth_levers = <<SavesLever, CommentLever, ShareLever>>

\* C5 witness: the strategy for the example input has been returned.
C5_Witness ==
    /\ result.op = "generate_ai_strategy"
    /\ inputs = LeverExampleMetrics
    /\ Len(result.value.growth_levers) = 3

\* ------------------------------------------------------------------------
\* Specification Spec: analyze, history, clear and agent requests over the
\* Post store
\* ------------------------------------------------------------------------

MaxPosts == 2

Sessions == {"anonymous", "s1"}

\* Two posts for analyze requests: one with balanced engagement, one with
\* few saves, no comments or shares, 40 hashtags and a long caption.
BalancedMetrics ==
    [caption_length |-> 150, hashtags |-> 15, likes |-> 20, saves |-> 10, comments |-> 2,
     shares |-> 1, follows |-> 1, profile_visits |-> 10, reposts |-> 0]

WeakMetrics ==
    [caption_length |-> 500, hashtags |-> 40, likes |-> 40, saves |-> 2, comments |-> 0,
     shares |-> 0, follows |-> 0, profile_visits |-> 0, reposts |-> 0]

AnalyzeInputs == {BalancedMetrics, WeakMetrics}

\* extra_posts of the request body: none, or one record of the client's
\* own with engagement counters only.
ExtraPosts == {<<>>, <<[likes |-> 10, saves |-> 5]>>}

\* The messages of agent requests: missing or blank, and one or more of
\* the responder's keywords in mixed case.
AgentMessages ==
    { <<" ", "\n">>,
      <<" ", "S", "a", "v", "e", "s", "?", " ">>,
      <<"N", "e", "x", "t", " ", "p", "o", "s", "t", " ", "s", "a", "v", "e">>,
      <<"F", "o", "l", "l", "o", "w", "e", "r", "s">>,
      <<"h", "a", "s", "h", "t", "a", "g", "s">>,
      <<"h", "i">> }

\* Earlier turns sent with an agent request.
AgentHistories ==
    { <<[role |-> "user", content |-> <<"h", "i">>],
        [role |-> "assistant", content |-> <<>>],
        [role |-> "system", content |-> <<"x">>]>> }

\* last_ai / forecast_report of the body: the engine's outputs of the last
\* analyze response, as the page sends them.
ExtraContexts == {[last_ai |-> TRUE, forecast |-> TRUE]}

Init ==
    /\ Fresh
    /\ inputs = NoMetrics
    /\ history = <<>>
    /\ arg_impressions = 0
    /\ arg_viral_score = FInt(0)

\* views.py lines 31-98.
Analyze ==
    /\ Len(posts) < MaxPosts
    /\ \E session_key \in Sessions, m \in AnalyzeInputs, extra_posts \in ExtraPosts :
        LET db_posts    == SessionPosts(posts, session_key)
            all_history == extra_posts \o MapSeq(db_posts, HistoryRecord)
            avgs        == compute_averages(all_history)
        IN  \E impressions \in predict_impressions(m, all_history),
               viral_score \in compute_viral_score(m),
               follow_rate \in compute_follow_rate(m) :
            \E eng_rate \in compute_engagement_rate(m, impressions),
               ai \in generate_ai_strategy(m, viral_score, impressions, avgs,
                                           POSTING_TIMES),
               forecast_report \in build_forecast_report(all_history, m, impressions) :
                LET post == [caption_length        |-> m.caption_length,
                             hashtags              |-> m.hashtags,
                             likes                 |-> m.likes,
                             saves                 |-> m.saves,
                             comments              |-> m.comments,
                             shares                |-> m.shares,
                             follows               |-> m.follows,
                             profile_visits        |-> m.profile_visits,
                             viral_score           |-> viral_score,
                             session_key           |-> session_key,
                             predicted_impressions |-> impressions,
                             reposts               |-> m.reposts,
                             follow_rate           |-> follow_rate,
                             eng_rate              |-> eng_rate,
                             ai_viral_label        |-> Get(ai, "viral_label", "")]
                IN  /\ posts' = Append(posts, post)
                    /\ result' =
                           [inputs          |-> m,
                            impressions     |-> impressions,
                            viral_score     |-> viral_score,
                            avgs            |-> avgs,
                            session_key     |-> session_key,
                            op              |-> "analyze",
                            status          |-> 200,
                            ai              |-> ai,
                            follow_rate     |-> follow_rate,
                            eng_rate        |-> eng_rate,
                            forecast_report |-> forecast_report,
                            avg_impressions |-> Get(avgs, "impressions", 0),
                            history_count   |->
                                Len(SessionPosts(Append(posts, post), session_key))]
                    /\ POSTING_TIMES' =
                           CatalogAfterShuffle(POSTING_TIMES,
                                               Shuffle(POSTING_TIMES, Seed(m)))
    /\ UNCHANGED <<inputs, history, arg_impressions, arg_viral_score, observed>>

\* views.py lines 33-36: analyze with a body that is not JSON.
AnalyzeInvalid ==
    /\ result' = InvalidJson("analyze")
    /\ UNCHANGED <<posts, POSTING_TIMES, inputs, history, arg_impressions,
                   arg_viral_score, observed>>

\* views.py lines 105-126.
History ==
    /\ \E session_key \in Sessions, body_ok \in BOOLEAN :
        LET rows == MapSeq(SessionPosts(posts, session_key),
                           LAMBDA p : [k \in DOMAIN p \ {"session_key"} |-> p[k]])
        IN  result' = IF ~body_ok THEN InvalidJson("history")
                      ELSE [posts |-> rows, session_key |-> session_key,
                            op |-> "history",
                            status |-> 200, count |-> Len(rows)]
    /\ UNCHANGED <<posts, POSTING_TIMES, inputs, history, arg_impressions,
                   arg_viral_score, observed>>

\* A faulty variant: clear deletes the records of every session.
Clear_all ==
    /\ \E session_key \in Sessions, body_ok \in BOOLEAN :
        IF ~body_ok
        THEN /\ result' = InvalidJson("clear")
             /\ posts' = posts
        ELSE /\ posts' = <<>>
             /\ result' = [session_key |-> session_key, op |-> "clear",
                           status |-> 200,
                           deleted |-> Len(SessionPosts(posts, session_key))]
    /\ UNCHANGED <<POSTING_TIMES, inputs, history, arg_impressions,
                   arg_viral_score, observed>>

\* views.py lines 133-141.
Clear ==
    /\ \E session_key \in Sessions, body_ok \in BOOLEAN :
        IF ~body_ok
        THEN /\ result' = InvalidJson("clear")
             /\ posts' = posts
        ELSE /\ posts' = SelectSeq(posts, LAMBDA p : p.session_key /= session_key)
             /\ result' = [session_key |-> session_key, op |-> "clear",
                           status |-> 200,
                           deleted |-> Len(SessionPosts(posts, session_key))]
    /\ UNCHANGED <<POSTING_TIMES, inputs, history, arg_impressions,
                   arg_viral_score, observed>>

\* An agent response: the HTTP status with the error or the reply, and
\* next to it the request's session and stripped message and the external
\* calls the handler made (what was sent and how the call ended).
AgentError(session_key, user_message, error) ==
    [session_key |-> session_key, op |-> "agent", status |-> 400,
     error |-> error, user_message |-> user_message, external_calls |-> <<>>]

\* A faulty variant: a call that failed is made a second time before the
\* local responder answers.
AgentReply_retried(session_key, user_message, calls, reply) ==
    [session_key |-> session_key, op |-> "agent", status |-> 200,
     user_message |-> user_message,
     external_calls |-> IF calls /= <<>> /\ Raises(calls[1].outcome)
                        THEN calls \o calls ELSE calls,
     reply |-> reply]

AgentReply(session_key, user_message, calls, reply) ==
    [session_key |-> session_key, op |-> "agent", status |-> 200,
     user_message |-> user_message, external_calls |-> calls, reply |-> reply]

\* views.py lines 328-347: one call of the external service.
ExternalCall(db_posts, extra_context, history_msgs, user_message, outcome) ==
    [outcome  |-> outcome,
     system   |-> _build_agent_system_prompt(db_posts, extra_context),
     messages |-> ConversationMessages(history_msgs, user_message)]

\* views.py lines 275-351.  The local responder answers when there is no
\* API key (lines 323-325) and when the call raises (lines 348-349);
\* otherwise the reply is the content read at line 347.
Agent ==
    /\ \/ result' = InvalidJson("agent")
       \/ \E session_key \in Sessions, message \in AgentMessages :
            LET user_message == Strip(message)
                db_posts     == SessionPosts(posts, session_key)
            IN  IF user_message = <<>>
                THEN result' = AgentError(session_key, user_message,
                                          "No message provided")
                ELSE
                \/ \E reply \in _fallback_agent_response(user_message, db_posts) :
                       \/ result' = AgentReply(session_key, user_message, <<>>, reply)
                       \/ \E history_msgs \in AgentHistories,
                             extra_context \in ExtraContexts,
                             outcome \in {o \in ExternalOutcomes : Raises(o)} :
                              result' =
                                  AgentReply(session_key, user_message,
                                             <<ExternalCall(db_posts, extra_context,
                                                            history_msgs, user_message,
                                                            outcome)>>,
                                             reply)
                \/ \E history_msgs \in AgentHistories,
                      extra_context \in ExtraContexts,
                      outcome \in {o \in ExternalOutcomes : ~Raises(o)} :
                       result' =
                           AgentReply(session_key, user_message,
                                      <<ExternalCall(db_posts, extra_context,
                                                     history_msgs, user_message,
                                                     outcome)>>,
                                      Content(outcome))
    /\ UNCHANGED <<posts, POSTING_TIMES, inputs, history, arg_impressions,
                   arg_viral_score, observed>>

Next == Analyze \/ AnalyzeInvalid \/ History \/ Clear \/ Agent

Spec == Init /\ [][Next]_vars

\* An agent response that followed one external call.
AfterExternalCall == result.op = "agent" /\ Len(Get(result, "external_calls", <<>>)) = 1

\* The external call delivered what the handler asked for: a success status
\* and a JSON payload whose choices[0].message.content is a text.
Delivered(outcome) ==
    /\ outcome.kind = "response"
    /\ outcome.status \in 200..299
    /\ outcome.body.json
    /\ ~Raises(outcome)
    /\ Content(outcome).type = "text"

\* C3: in an agent request with a non-empty message and a configured API
\* key, every failure of the external call (timeout, network error,
\* non-success status, malformed or incomplete response payload) ends with
\* a normal reply response whose reply is the one the local rule-based
\* responder gives for the message and the session's records.
C3_FallbackOnEveryFailure ==
    (AfterExternalCall /\ ~Delivered(result.external_calls[1].outcome)) =>
        /\ result.status = 200
        /\ result.reply \in
               _fallback_agent_response(result.user_message,
                                        SessionPosts(posts, result.session_key))

EngineInputs == {BalancedMetrics, WeakMetrics}

EngineHistoryRecord(imp) ==
    [hashtags |-> 15, likes |-> 100, saves |-> 50, comments |-> 10, shares |-> 5,
     follows |-> 2, viral_score |-> Lit(534, 10), predicted_impressions |-> imp]

EngineHistories ==
    { <<>>, <<EngineHistoryRecord(300)>>,
      <<EngineHistoryRecord(300), EngineHistoryRecord(500)>> }

EngineArgs ==
    [inputs : EngineInputs, history : EngineHistories, impressions : {100, 500},
     viral_score : {FInt(0), Lit(477, 10)}]

InitEngine ==
    /\ Fresh
    /\ inputs = NoMetrics
    /\ history = <<>>
    /\ arg_impressions = 0
    /\ arg_viral_score = FInt(0)

\* The state after a call that leaves its arguments alone.
EngineReturn(op, args, value) ==
    /\ result' = [op |-> op, value |-> value, args |-> args]
    /\ inputs' = args.inputs
    /\ history' = args.history
    /\ arg_impressions' = args.impressions
    /\ arg_viral_score' = args.viral_score
    /\ UNCHANGED <<posts, observed>>

CallPredictImpressions ==
    \E args \in EngineArgs :
        \E v \in predict_impressions(args.inputs, args.history) :
            EngineReturn("predict_impressions", args, v) /\ UNCHANGED POSTING_TIMES

CallComputeViralScore ==
    \E args \in EngineArgs :
        \E v \in compute_viral_score(args.inputs) :
            EngineReturn("compute_viral_score", args, v) /\ UNCHANGED POSTING_TIMES

CallComputeAverages ==
    \E args \in EngineArgs :
        EngineReturn("compute_averages", args, compute_averages(args.history))
            /\ UNCHANGED POSTING_TIMES

CallGetBestTimes ==
    \E args \in EngineArgs :
        /\ EngineReturn("get_best_times", args,
                        get_best_times(args.inputs, POSTING_TIMES))
        /\ POSTING_TIMES' =
               CatalogAfterShuffle(POSTING_TIMES,
                                   Shuffle(POSTING_TIMES, Seed(args.inputs)))

CallBuildForecastReport ==
    \E args \in EngineArgs :
        \E rep \in build_forecast_report(args.history, args.inputs, args.impressions) :
            LET all_posts == AllPosts(args.history, args.inputs, args.impressions)
            IN  /\ result' = [op |-> "build_forecast_report", value |-> rep,
                              args |-> args]
                /\ history' = HistoryAfterForecast(args.history, all_posts)
                /\ inputs' = InputsAfterForecast(args.inputs, all_posts[Len(all_posts)])
                /\ arg_impressions' = args.impressions
                /\ arg_viral_score' = args.viral_score
                /\ UNCHANGED <<posts, observed, POSTING_TIMES>>

CallGenerateAiStrategy ==
    \E args \in EngineArgs :
        \E ai \in generate_ai_strategy(args.inputs, args.viral_score, args.impressions,
                                       compute_averages(args.history), POSTING_TIMES) :
            /\ EngineReturn("generate_ai_strategy", args, ai)
            /\ POSTING_TIMES' =
                   CatalogAfterShuffle(POSTING_TIMES,
                                       Shuffle(POSTING_TIMES, Seed(args.inputs)))

NextEngine ==
    \/ CallPredictImpressions \/ CallComputeViralScore \/ CallComputeAverages
    \/ CallGetBestTimes \/ CallBuildForecastReport \/ CallGenerateAiStrategy

SpecEngine == InitEngine /\ [][NextEngine]_vars

\* What the call recorded in r can return when it is the only call ever
\* made, that is with the catalog as loaded.
ReturnsAlone(r) ==
    CASE r.op = "predict_impressions" ->
             predict_impressions(r.args.inputs, r.args.history)
      [] r.op = "compute_viral_score" -> compute_viral_score(r.args.inputs)
      [] r.op = "compute_averages" -> {compute_averages(r.args.history)}
      [] r.op = "get_best_times" -> {get_best_times(r.args.inputs, Catalog)}
      [] r.op = "build_forecast_report" ->
             build_forecast_report(r.args.history, r.args.inputs, r.args.impressions)
      [] r.op = "generate_ai_strategy" ->
             generate_ai_strategy(r.args.inputs, r.args.viral_score,
                                  r.args.impressions,
                                  compute_averages(r.args.history), Catalog)

\* C12: every engine function leaves its arguments and the process-wide
\* state unchanged: after any call, in any order of calls, the caller's
\* history list is the list passed (not extended by the synthetic
\* current-post record), the metrics mapping has the keys and values passed
\* (no key gained), and POSTING_TIMES is in its original order; hence a call
\* made between other calls returns what the same call returns alone.
C12_EngineLeavesStateAlone ==
    /\ POSTING_TIMES = Catalog
    /\ result /= NoResult =>
           /\ history = result.args.history
           /\ inputs = result.args.inputs
           /\ DOMAIN inputs = DOMAIN NoMetrics
           /\ result.value \in ReturnsAlone(result)

\* C12 witness: build_forecast_report has returned a report of three
\* points over a history list of two records.
C12_Witness ==
    /\ result.op = "build_forecast_report"
    /\ Len(result.args.history) = 2
    /\ result.value /= None
    /\ result.value.post_count = 3

\* ------------------------------------------------------------------------
\* Specification SpecTrend: trend_direction on bounded series
\* ------------------------------------------------------------------------

\* Longest series handed to trend_direction.
MaxSeries == 4

\* Points of a series: 5% of 20 is 1, so 21 is a tie and 22 is above it;
\* 0 makes the first-half mean zero.
TrendValues == {0, 20, 21, 22}

InitTrend ==
    /\ Fresh
    /\ arg_impressions = 0
    /\ arg_viral_score = FInt(0)
    /\ inputs = NoMetrics
    /\ history \in SeqsUpTo(TrendValues, MaxSeries)

TrendDirection ==
    /\ result = NoResult
    /\ result' = [op |-> "trend_direction", value |-> trend_direction_int(history)]
    /\ UNCHANGED <<posts, POSTING_TIMES, inputs, history, arg_impressions, arg_viral_score, observed>>

NextTrend == TrendDirection

SpecTrend == InitTrend /\ [][NextTrend]_vars

\* The sum of the elements of an integer series at indices a..b.
RECURSIVE SumRange(_, _, _)
SumRange(values, a, b) == IF a > b THEN 0 ELSE values[a] + SumRange(values, a + 1, b)

\* The label of a series split after its first h elements, in integers:
\* mean2 - mean1 > mean1 / 20 is 20 * (s2 * h - s1 * k) > s1 * k for sums s1,
\* s2 over h and k elements.
LabelOfSplit(values, h) ==
    LET k    == Len(values) - h
        s1   == SumRange(values, 1, h)
        s2   == SumRange(values, h + 1, Len(values))
        d20  == 20 * (s2 * h - s1 * k)
    IN  IF d20 > s1 * k THEN "improving"
        ELSE IF d20 < -(s1 * k) THEN "declining"
        ELSE "stable"

\* C13 as stated: stable below 2 points; otherwise the first ceil(n/2)
\* elements are compared with the remaining floor(n/2), with 5% thresholds
\* relative to the first-half mean.
C13_Original ==
    result.op = "trend_direction" =>
        result.value = IF Len(history) < 2 THEN "stable"
                       ELSE LabelOfSplit(history, (Len(history) + 1) \div 2)

\* C13 amended: stable below 2 points; otherwise the first floor(n/2)
\* elements are compared with the remaining ceil(n/2), so that the second
\* half gets the extra element on odd lengths; improving when the second
\* mean exceeds the first by more than 5% of the first, declining when it
\* is lower by more than 5%, else stable.
C13_TrendDirection ==
    result.op = "trend_direction" =>
        result.value = IF Len(history) < 2 THEN "stable"
                       ELSE LabelOfSplit(history, Len(history) \div 2)

\* An odd-length series on which the two splits disagree: 20 against the
\* mean of 0 and 20 is a decline, the mean of 20 and 0 against 20 a rise.
C13_Witness ==
    /\ result.op = "trend_direction"
    /\ history = <<20, 0, 20>>
    /\ result.value = "declining"
    /\ LabelOfSplit(history, 2) = "improving"

\* ------------------------------------------------------------------------
\* C14: the viral-score series of the forecast in analyze
\* ------------------------------------------------------------------------

\* The viral-score series of engine.py line 207 over a history, followed by
\* the viral score of the current post.
ViralSeriesWithCurrent(hist, viral_score) ==
    Append(MapSeq(hist, LAMBDA p : Get(p, "viral_score", FInt(0))), viral_score)

\* The histories analyze can have handed to the engine for the response in
\* result: some extra posts, then the records the session had before the
\* insert.
HistoriesBefore ==
    LET db_posts == SessionPosts(posts, result.session_key)
        before   == SubSeq(db_posts, 1, Len(db_posts) - 1)
    IN  { extra_posts \o MapSeq(before, HistoryRecord) : extra_posts \in ExtraPosts }

\* C14: in an analyze response that carries a forecast, next_viral_forecast
\* is the extrapolation of a viral-score series whose last element is the
\* viral score computed for the current post.
C14_CurrentViralScoreAttached ==
    (result.op = "analyze" /\ result.status = 200 /\ result.forecast_report /= None) =>
        \E hist \in HistoriesBefore :
            \E v \in NextViralForecast(ViralSeriesWithCurrent(hist, result.viral_score)) :
                v.n * result.forecast_report.next_viral_forecast.d
                    = result.forecast_report.next_viral_forecast.n * v.d

\* The external calls an agent response was produced with.
CallsMade == Get(result, "external_calls", <<>>)

\* The replies of the local responder for the request answered in result.
LocalReplies ==
    _fallback_agent_response(result.user_message,
                             SessionPosts(posts, result.session_key))

CountOf(store, session_key) == Len(SessionPosts(store, session_key))

\* A step that ends with a successful analyze response: one record is
\* appended under the request's session key, the records already stored are
\* as they were, and the response's averages and the record's impressions
\* come from the history before the insert.
AnalyzeStepAppends ==
    LET key  == result'.session_key
        post == posts'[Len(posts')]
    IN  /\ Len(posts') = Len(posts) + 1
        /\ SubSeq(posts', 1, Len(posts)) = posts
        /\ post.session_key = key
        /\ \E extra_posts \in ExtraPosts :
               LET all_history == extra_posts \o MapSeq(SessionPosts(posts, key),
                                                        HistoryRecord)
               IN  /\ result'.avgs = compute_averages(all_history)
                   /\ post.predicted_impressions
                          \in predict_impressions(result'.inputs, all_history)
        /\ \A k \in Sessions :
               CountOf(posts', k) = CountOf(posts, k) + (IF k = key THEN 1 ELSE 0)
        /\ result'.history_count = CountOf(posts', key)

\* A step that ends with a successful clear response: the records of the
\* request's session are gone and every other record is kept, in order.
ClearStepDeletesOwn ==
    LET key == result'.session_key
    IN  /\ posts' = SelectSeq(posts, LAMBDA p : p.session_key /= key)
        /\ CountOf(posts', key) = 0
        /\ \A k \in Sessions \ {key} : SessionPosts(posts', k) = SessionPosts(posts, k)
        /\ result'.deleted = CountOf(posts, key)

\* C16: every successful analyze inserts exactly one record under its
\* session key, computed from the history before the insert, and changes no
\* existing record; clear deletes exactly the records of its own session;
\* no other request changes the store.  A session's count thus starts at 0,
\* grows by one with each of its analyze requests and returns to 0 with its
\* clear, which makes it the number of its analyze requests since its last
\* clear.
C16_AppendOnlyPerSession ==
    [][ /\ (result'.op = "analyze" /\ result'.status = 200) => AnalyzeStepAppends
        /\ (result'.op = "clear" /\ result'.status = 200) => ClearStepDeletesOwn
        /\ (result'.status /= 200 \/ result'.op \notin {"analyze", "clear"}) =>
               posts' = posts ]_vars

\* A clear that deleted one session's record and left the record of the
\* other session in the store.
C16_Witness ==
    /\ result.op = "clear"
    /\ result.status = 200
    /\ result.deleted = 1
    /\ Len(posts) = 1
    /\ posts[1].session_key /= result.session_key

\* ------------------------------------------------------------------------
\* Specification SpecResponder: _fallback_agent_response on bounded inputs
\* ------------------------------------------------------------------------

\* Rows as agent reads them (views.py lines 297-301): one with few saves
\* per like and one with many.
ResponderRows ==
    { [caption_length |-> 500, hashtags |-> 40, likes |-> 40, saves |-> 2, comments |-> 0,
       shares |-> 0, follows |-> 0, profile_visits |-> 0, viral_score |-> Lit(50, 10),
       predicted_impressions |-> 970, ai_viral_label |-> "Low Potential"],
      [caption_length |-> 150, hashtags |-> 15, likes |-> 20, saves |-> 10, comments |-> 2,
       shares |-> 1, follows |-> 1, profile_visits |-> 10, viral_score |-> Lit(477, 10),
       predicted_impressions |-> 1675, ai_viral_label |-> "Moderate Potential"] }

\* Messages with none, one or several of the keywords, in mixed case.
ResponderMessages ==
    { <<"S", "a", "v", "e", " ", "p", "l", "a", "n">>,
      <<"f", "o", "l", "l", "o", "w", " ", "p", "l", "a", "n">>,
      <<"h", "a", "s", "h", "t", "a", "g", " ", "f", "o", "l", "l", "o", "w">>,
      <<"H", "a", "s", "h", "t", "a", "g", "s">>,
      <<"h", "i">>,
      <<"P", "O", "S", "T">>,
      <<"C", "a", "l", "e", "n", "d", "a", "r">>,
      <<"m", "y", " ", "c", "o", "n", "t", "e", "n", "t">>,
      <<"n", "e", "x", "t">>,
      <<"u", "n", "f", "o", "l", "l", "o", "w", " ", "h", "a", "s", "h", "t", "a", "g", " ", "s", "a", "v", "e">>,
      <<"s", "a", "v", " ", "e">>,
      <<"F", "o", "l", "l", "o", "w", "e", "r", "s">>,
      <<"p", "l", "a", "n", " ", "h", "a", "s", "h", "t", "a", "g", "s">>,
      <<"N", "e", "x", "t", " ", "p", "o", "s", "t", " ", "s", "a", "v", "e">> }

InitResponder ==
    /\ Fresh
    /\ inputs = NoMetrics
    /\ history = <<>>
    /\ arg_impressions = 0
    /\ arg_viral_score = FInt(0)

FallbackAgentResponse ==
    /\ \E message \in ResponderMessages, db_posts \in SeqsUpTo(ResponderRows, MaxPosts) :
        \E reply \in _fallback_agent_response(message, db_posts) :
            result' = [op |-> "_fallback_agent_response", value |-> reply,
                       args |-> [posts |-> db_posts, message |-> message]]
    /\ UNCHANGED <<posts, POSTING_TIMES, inputs, history, arg_impressions, arg_viral_score, observed>>

NextResponder == FallbackAgentResponse

SpecResponder == InitResponder /\ [][NextResponder]_vars

\* The topics in the order in which they are tested, and the words that
\* select each of them.
TopicOrder == <<"saves", "planning", "follows", "hashtags">>

TopicWords(topic) ==
    CASE topic = "saves"    -> { <<"s", "a", "v", "e">> }
      [] topic = "planning" -> { <<"n", "e", "x", "t">>, <<"p", "l", "a", "n">>,
                                 <<"c", "a", "l", "e", "n", "d", "a", "r">>,
                                 <<"c", "o", "n", "t", "e", "n", "t">>,
                                 <<"p", "o", "s", "t">> }
      [] topic = "follows"  -> { <<"f", "o", "l", "l", "o", "w">> }
      [] topic = "hashtags" -> { <<"h", "a", "s", "h", "t", "a", "g">> }

\* The topic a message selects over a store of count records.
TopicFor(message, count) ==
    LET msg  == Lower(message)
        hits == {i \in DOMAIN TopicOrder : \E w \in TopicWords(TopicOrder[i]) : Contains(msg, w)}
    IN  IF count = 0 THEN "no_data"
        ELSE IF hits = {} THEN "generic"
        ELSE TopicOrder[CHOOSE i \in hits : \A j \in hits : i <= j]

\* The topic a reply text belongs to.
TopicOfReply(reply) ==
    CASE reply.topic \in {"saves_low", "saves_solid"}          -> "saves"
      [] reply.topic \in {"generic_ok", "generic_main_lever"}  -> "generic"
      [] OTHER                                                 -> reply.topic

ViralScores == {FInt(0), Lit(121, 10), Lit(534, 10), FInt(100)}

ScoredRecords ==
    { [hashtags |-> 15, likes |-> 100, saves |-> 50, comments |-> 10, shares |-> 5,
       follows |-> 2, viral_score |-> v, predicted_impressions |-> 300] :
        v \in ViralScores }

\* The metrics of the current post with its viral score attached.
ScoredInputs ==
    { [caption_length |-> 150, hashtags |-> 15, likes |-> 100, saves |-> 50, comments |-> 10,
       shares |-> 5, follows |-> 2, profile_visits |-> 10, viral_score |-> v,
       reposts |-> 0] :
        v \in ViralScores }

InitViralForecast ==
    /\ Fresh
    /\ inputs \in ScoredInputs
    /\ history \in SeqsUpTo(ScoredRecords, MaxHist)
    /\ arg_impressions = 300
    /\ arg_viral_score = FInt(0)

SpecViralForecast == InitViralForecast /\ [][NextForecast]_vars

\* Every record handed to the forecast, the current post included, carries
\* a viral score between 0 and 100.
ScoresInRange ==
    /\ "viral_score" \in DOMAIN inputs
    /\ RLe(FInt(0), inputs.viral_score) /\ RLe(inputs.viral_score, FInt(100))
    /\ \A i \in DOMAIN history :
           /\ "viral_score" \in DOMAIN history[i]
           /\ RLe(FInt(0), history[i].viral_score)
           /\ RLe(history[i].viral_score, FInt(100))

\* C18: in every report of build_forecast_report over records whose viral
\* scores lie in [0, 100], next_viral_forecast lies in [0, 100].
C18_NextViralForecastInRange ==
    (result.op = "build_forecast_report" /\ result.value /= None /\ ScoresInRange) =>
        /\ RLe(FInt(0), result.value.next_viral_forecast)
        /\ RLe(result.value.next_viral_forecast, FInt(100))

====
